---- MODULE Spec2Model ----
(***************************************************************************)
(* A model of src/data/bucket/symbol_bucket.js: the SymbolBuffers          *)
(* lifecycle (upload / destroy), the quad packer (addToLineVertexArray,    *)
(* addSymbols, addCollisionDebugVertices), the feature collector           *)
(* (populate) and the size interpolator (getSizeData).                     *)
(*                                                                         *)
(* The collision records' debug emitter (generateCollisionDebugBuffers)    *)
(* and flattening routines (deserializeCollisionBoxes / Circles) follow.   *)
(*                                                                         *)
(* SpecTransfer adds the serialization bridge (serialize, constructor).    *)
(*                                                                         *)
(* Each component has a specification of its own (SpecLifecycle, SpecPack, *)
(* SpecPopulate, SpecSize, SpecCollision, SpecTransfer); a specification   *)
(* holds the other components' variables at their idle values.             *)
(***************************************************************************)
EXTENDS Integers, Sequences, FiniteSets, TLC

VARIABLES
    buffers,        \* lifecycle: render target -> the SymbolBuffers' GPU side
    lifeCalls,      \* lifecycle: how many upload and destroy calls were made
    arrays,         \* packer: render target -> the SymbolBuffers' CPU arrays
    placedGlyphArray, placedIconArray, glyphOffsetArray, lineVertexArray,
    zoom,           \* packer: the bucket's zoom
    lineArray,      \* packer: the anchor and range of the last addToLineVertexArray
    lastOp,         \* packer: what the last operation was given and what it found
    ops,            \* packer: how many packer calls were made
    layer,          \* collector: the style layer (layers[0])
    features,       \* collector: this.features
    glyphDependencies, iconDependencies,   \* collector: options.*Dependencies
    populateIn,     \* collector: the arguments of the populate call, once made
    sizeCall,       \* size: the arguments and result of getSizeData, once called
    collisionBoxArray,  \* collision: options.collisionBoxArray
    symbolInstances,    \* collision: this.symbolInstances
    flat,           \* collision: the arguments and result of the last flattening call
    serialized,     \* transfer: what SymbolBucket.serialize returned, once called
    rebuilt         \* transfer: the bucket constructed from the serialized form

lifeVars == <<buffers, lifeCalls>>
packVars == <<zoom, arrays, placedGlyphArray, placedIconArray, glyphOffsetArray,
              lineVertexArray, lineArray, lastOp, ops>>
popVars  == <<layer, features, glyphDependencies, iconDependencies, populateIn>>
sizeVars == <<sizeCall>>
collVars == <<collisionBoxArray, symbolInstances, flat>>
transferVars == <<serialized, rebuilt>>
vars == <<buffers, lifeCalls, zoom, arrays, placedGlyphArray, placedIconArray, glyphOffsetArray,
          lineVertexArray, lineArray, lastOp, ops, layer, features,
          glyphDependencies, iconDependencies, populateIn, sizeCall,
          collisionBoxArray, symbolInstances, flat, serialized, rebuilt>>

(***************************************************************************)
(* Bounds of the model.                                                    *)
(***************************************************************************)
MaxLifecycleCalls == 4  \* upload and destroy calls made on one bucket
MaxPackCalls == 4       \* packer calls made on one bucket
IndexBits == 4          \* the width standing for 16 bits (Uint16, Int16; Uint32 is twice it)
MaxFeatures == 2        \* features in the list given to populate
MaxStop == 3            \* the highest declared zoom stop
ZoomUnit == 2           \* stop levels are counted in 1/ZoomUnit of a zoom level
MaxBoxes == 2           \* records in the collision box array

Targets == {"text", "icon", "collisionBox", "collisionCircle"}

\* symbolInterfaces: which attribute families a render target declares.
symbolInterfaces ==
    [t \in Targets |->
        [dynamicLayoutAttributes |-> t \in {"text", "icon"},
         opacityAttributes       |-> t \in {"text", "icon"},
         collisionAttributes     |-> t \in {"collisionBox", "collisionCircle"},
         indexArrayType          |-> IF t = "collisionBox" THEN "LineIndexArray"
                                     ELSE "TriangleIndexArray"]]

(***************************************************************************)
(* Buffer Set lifecycle.  A field holding 0 is undefined; otherwise it is  *)
(* the position in gpu of the buffer object an upload created.  A buffer   *)
(* object records the destroy() calls made on it.  uploadCalls and         *)
(* destroyCalls count the calls made on the set itself (history).          *)
(***************************************************************************)
NoBuffer == [layoutVertexBuffer |-> 0, indexBuffer |-> 0,
             dynamicLayoutVertexBuffer |-> 0, opacityVertexBuffer |-> 0,
             collisionVertexBuffer |-> 0]

\* new SymbolBuffers(programInterface, layers, zoom): no buffer exists yet.
SymbolBuffers ==
    [fields |-> NoBuffer, gpu |-> <<>>,
     programConfigurations |-> [uploadCalls |-> 0, destroyCalls |-> 0],
     segments |-> [destroyCalls |-> 0],
     uploadCalls |-> 0, destroyCalls |-> 0]

\* new VertexBuffer(gl, array) / new IndexBuffer(gl, array)
NewBuffer(kind) == [kind |-> kind, destroyCalls |-> 0]

\* buffer.destroy() on the object a field references
DestroyBuffer(gpu, ref) ==
    IF ref = 0 THEN gpu
    ELSE [gpu EXCEPT ![ref].destroyCalls = @ + 1]

\* SymbolBuffers.upload(gl)
upload(s, t) ==
    LET i  == symbolInterfaces[t]
        g1 == Append(Append(s.gpu, NewBuffer("layout")), NewBuffer("index"))
        g2 == IF i.dynamicLayoutAttributes THEN Append(g1, NewBuffer("dynamic")) ELSE g1
        g3 == IF i.opacityAttributes THEN Append(g2, NewBuffer("opacity")) ELSE g2
        g4 == IF i.collisionAttributes THEN Append(g3, NewBuffer("collision")) ELSE g3
    IN  [s EXCEPT
            !.gpu = g4,
            !.fields = [layoutVertexBuffer |-> Len(s.gpu) + 1,
                        indexBuffer |-> Len(s.gpu) + 2,
                        dynamicLayoutVertexBuffer |->
                            IF i.dynamicLayoutAttributes THEN Len(g2)
                            ELSE s.fields.dynamicLayoutVertexBuffer,
                        opacityVertexBuffer |->
                            IF i.opacityAttributes THEN Len(g3)
                            ELSE s.fields.opacityVertexBuffer,
                        collisionVertexBuffer |->
                            IF i.collisionAttributes THEN Len(g4)
                            ELSE s.fields.collisionVertexBuffer],
            !.programConfigurations.uploadCalls = @ + 1,
            !.uploadCalls = @ + 1]

\* A destroy without the guard on layoutVertexBuffer.
destroyUnguarded(s) ==
    LET f  == s.fields
        g1 == DestroyBuffer(s.gpu, f.layoutVertexBuffer)
        g2 == DestroyBuffer(g1, f.indexBuffer)
        g3 == DestroyBuffer(g2, f.dynamicLayoutVertexBuffer)
        g4 == DestroyBuffer(g3, f.opacityVertexBuffer)
        g5 == DestroyBuffer(g4, f.collisionVertexBuffer)
    IN  [s EXCEPT !.gpu = g5,
                  !.programConfigurations.destroyCalls = @ + 1,
                  !.segments.destroyCalls = @ + 1,
                  !.destroyCalls = @ + 1]

\* SymbolBuffers.destroy()
destroy(s) ==
    IF s.fields.layoutVertexBuffer = 0
    THEN [s EXCEPT !.destroyCalls = @ + 1]
    ELSE LET f  == s.fields
             g1 == DestroyBuffer(s.gpu, f.layoutVertexBuffer)
             g2 == DestroyBuffer(g1, f.indexBuffer)
             g3 == DestroyBuffer(g2, f.dynamicLayoutVertexBuffer)
             g4 == DestroyBuffer(g3, f.opacityVertexBuffer)
             g5 == DestroyBuffer(g4, f.collisionVertexBuffer)
         IN  [s EXCEPT !.gpu = g5,
                       !.programConfigurations.destroyCalls = @ + 1,
                       !.segments.destroyCalls = @ + 1,
                       !.destroyCalls = @ + 1]

\* createArrays(): the four Buffer Sets, built and not uploaded.
InitBuffers ==
    /\ buffers = [t \in Targets |-> SymbolBuffers]
    /\ lifeCalls = 0

IdleBuffers == InitBuffers

\* one Buffer Set's upload(gl)
UploadSet(t) ==
    /\ lifeCalls < MaxLifecycleCalls
    /\ lifeCalls' = lifeCalls + 1
    /\ buffers' = [buffers EXCEPT ![t] = upload(buffers[t], t)]

\* one Buffer Set's destroy()
DestroySet(t) ==
    /\ lifeCalls < MaxLifecycleCalls
    /\ lifeCalls' = lifeCalls + 1
    /\ buffers' = [buffers EXCEPT ![t] = destroy(buffers[t])]

\* SymbolBucket.upload(gl): text, icon, collisionBox, collisionCircle
SymbolBucket_upload ==
    /\ lifeCalls < MaxLifecycleCalls
    /\ lifeCalls' = lifeCalls + 1
    /\ buffers' = [t \in Targets |-> upload(buffers[t], t)]

\* SymbolBucket.destroy(): text, icon, collisionBox, collisionCircle
SymbolBucket_destroy ==
    /\ lifeCalls < MaxLifecycleCalls
    /\ lifeCalls' = lifeCalls + 1
    /\ buffers' = [t \in Targets |-> destroy(buffers[t])]

(***************************************************************************)
(* Struct array member types, at the model's width.                        *)
(***************************************************************************)
Uint16(v) == v % (2 ^ IndexBits)
Uint32(v) == v % (2 ^ (2 * IndexBits))
Int16(v) ==
    LET r == v % (2 ^ IndexBits)
    IN  IF r >= 2 ^ (IndexBits - 1) THEN r - 2 ^ IndexBits ELSE r

\* SegmentVector.MAX_VERTEX_ARRAY_LENGTH: the largest vertex count of a segment
MAX_VERTEX_ARRAY_LENGTH == 2 ^ IndexBits - 1

NoSegment == -1         \* anchor.segment === undefined

(***************************************************************************)
(* Geometry.  The lines are axis-aligned, so that every distance the code  *)
(* computes is an integer.                                                 *)
(***************************************************************************)
Pt(x, y) == [x |-> x, y |-> y]

Abs(n) == IF n < 0 THEN -n ELSE n

\* Point.dist on points of one axis-aligned segment
dist(a, b) == Abs(a.x - b.x) + Abs(a.y - b.y)

\* one line, long enough for its distances to pass the largest Int16
Lines == { <<Pt(0, 0), Pt(7, 0), Pt(7, 7)>> }

\* new Anchor(x, y, angle, segment) one unit into segment seg of the line
AnchorOn(line, seg) ==
    LET a == line[seg + 1]
        b == line[seg + 2]
    IN  [x |-> IF b.x > a.x THEN a.x + 1 ELSE a.x,
         y |-> IF b.y > a.y THEN a.y + 1 ELSE a.y,
         segment |-> seg]

\* the anchors a line is given: on each of its segments, with the index of
\* its last vertex as segment, or with no segment
Anchors(line) ==
    { AnchorOn(line, seg) : seg \in 0 .. Len(line) - 2 }
        \cup { [x |-> line[Len(line)].x, y |-> line[Len(line)].y,
                segment |-> Len(line) - 1] }
        \cup { [x |-> line[1].x, y |-> line[1].y, segment |-> NoSegment] }

(***************************************************************************)
(* The CPU arrays of one Buffer Set.  An index record keeps the values     *)
(* given to emplaceBack and the segment they were written for.             *)
(***************************************************************************)
\* undefined, where a serialized form is expected.  A Buffer Set's array that
\* is undefined is a field its record does not have.
Undefined == [undefined |-> TRUE]

NoField == [key \in {} |-> Undefined]

\* new StructArrayType(serialized): the array of a serialized form, or an
\* empty one
StructArray(ser) ==
    IF ser = Undefined THEN <<>>
    ELSE SubSeq(ser.arrayBuffer, 1, ser.length)

\* StructArray.serialize(transferables): the trimmed buffer and its length
serializeArray(array) == [length |-> Len(array), arrayBuffer |-> array]

\* A constructor that makes its SegmentVector without the serialized segments.
newSymbolBuffersNoSegments(t, a) ==
    LET i == symbolInterfaces[t]
        member(key) == IF a = Undefined THEN Undefined ELSE a[key]
    IN  [layoutVertexArray |-> StructArray(member("layoutVertexArray")),
         indexArray |-> StructArray(member("indexArray")),
         paintLength |-> IF a = Undefined THEN 0 ELSE a.programConfigurations,
         segments |-> <<>>]
        @@ (IF i.dynamicLayoutAttributes
            THEN [dynamicLayoutVertexArray |->
                      StructArray(member("dynamicLayoutVertexArray"))]
            ELSE NoField)
        @@ (IF i.opacityAttributes
            THEN [opacityVertexArray |-> StructArray(member("opacityVertexArray"))]
            ELSE NoField)
        @@ (IF i.collisionAttributes
            THEN [collisionVertexArray |-> StructArray(member("collisionVertexArray"))]
            ELSE NoField)

\* new SymbolBuffers(programInterface, layers, zoom, arrays), its CPU arrays:
\* a is the serialized form, or Undefined.  An array of a family the interface
\* does not declare stays undefined.  paintLength is the length of the paint
\* arrays of programConfigurations.
newSymbolBuffers(t, a) ==
    LET i == symbolInterfaces[t]
        member(key) == IF a = Undefined THEN Undefined ELSE a[key]
    IN  [layoutVertexArray |-> StructArray(member("layoutVertexArray")),
         indexArray |-> StructArray(member("indexArray")),
         paintLength |-> IF a = Undefined THEN 0 ELSE a.programConfigurations,
         segments |-> IF a = Undefined THEN <<>> ELSE a.segments]
        @@ (IF i.dynamicLayoutAttributes
            THEN [dynamicLayoutVertexArray |->
                      StructArray(member("dynamicLayoutVertexArray"))]
            ELSE NoField)
        @@ (IF i.opacityAttributes
            THEN [opacityVertexArray |-> StructArray(member("opacityVertexArray"))]
            ELSE NoField)
        @@ (IF i.collisionAttributes
            THEN [collisionVertexArray |-> StructArray(member("collisionVertexArray"))]
            ELSE NoField)

\* SymbolBuffers.serialize(transferables): this.array && this.array.serialize()
\* for the arrays that may be undefined
serialize(a) ==
    LET optional(key) ==
            IF key \in DOMAIN a THEN serializeArray(a[key]) ELSE Undefined
    IN  [layoutVertexArray |-> serializeArray(a.layoutVertexArray),
         indexArray |-> serializeArray(a.indexArray),
         programConfigurations |-> a.paintLength,
         segments |-> a.segments,
         dynamicLayoutVertexArray |-> optional("dynamicLayoutVertexArray"),
         opacityVertexArray |-> optional("opacityVertexArray"),
         collisionVertexArray |-> optional("collisionVertexArray")]

\* the CPU arrays of a Buffer Set that was built from nothing
EmptyArrays(t) == newSymbolBuffers(t, Undefined)

\* SegmentVector.prepareSegment(numVertices, layoutVertexArray, indexArray):
\* the last segment, or a new one when it has no room for numVertices more
prepareSegment(a, numVertices) ==
    IF \/ a.segments = <<>>
       \/ a.segments[Len(a.segments)].vertexLength + numVertices
              > MAX_VERTEX_ARRAY_LENGTH
    THEN [a EXCEPT !.segments =
            Append(@, [vertexOffset |-> Len(a.layoutVertexArray),
                       primitiveOffset |-> Len(a.indexArray),
                       vertexLength |-> 0, primitiveLength |-> 0])]
    ELSE a

\* encode_attribute.packUint8ToFloat(a, b)
packUint8ToFloat(a, b) ==
    LET clamp(v) == IF v < 0 THEN 0 ELSE IF v > 255 THEN 255 ELSE v
    IN  256 * clamp(a) + clamp(b)

\* addVertex(array, anchorX, anchorY, ox, oy, tx, ty, sizeVertex)
addVertex(array, anchorX, anchorY, ox, oy, tx, ty, sizeVertex) ==
    Append(array, <<anchorX, anchorY, ox * 64, oy * 64, tx, ty,
                    IF sizeVertex # <<>> THEN sizeVertex[1] ELSE 0,
                    IF sizeVertex # <<>> THEN sizeVertex[2] ELSE 0>>)

\* A version of addDynamicAttributes that writes three records, not four.
addDynamicAttributes3(dynamicLayoutVertexArray, p, angle, placementZoom) ==
    LET v == <<p.x, p.y, packUint8ToFloat(0, placementZoom * 10)>>
    IN  dynamicLayoutVertexArray \o <<v, v, v>>

\* addDynamicAttributes(dynamicLayoutVertexArray, p, angle, placementZoom),
\* for the angle 0 that addSymbols gives it
addDynamicAttributes(dynamicLayoutVertexArray, p, angle, placementZoom) ==
    LET angleAndZoom == packUint8ToFloat(angle * 255, placementZoom * 10)
        v == <<p.x, p.y, angleAndZoom>>
    IN  dynamicLayoutVertexArray \o <<v, v, v, v>>

\* A shaped quad: its corners, its texture rectangle and its glyph offset.
SymbolQuad(j) ==
    [tl |-> Pt(0, 0), tr |-> Pt(1, 0), bl |-> Pt(0, 1), br |-> Pt(1, 1),
     tex |-> [x |-> j, y |-> 0, w |-> 1, h |-> 1],
     glyphOffset |-> <<j, 0>>]

\* the quads of a label of k glyphs
Quads(k) == [j \in 1 .. k |-> SymbolQuad(j - 1)]

\* A loop body that takes the index from the layout array's length.
addQuadAbsolute(st, symbol, sizeVertex, labelAnchor, placementZoom) ==
    LET a0 == prepareSegment(st.arrays, 4)
        n == Len(a0.segments)
        index == Len(a0.layoutVertexArray)
        y == symbol.glyphOffset[2]
        tex == symbol.tex
        v1 == addVertex(a0.layoutVertexArray, labelAnchor.x, labelAnchor.y,
                        symbol.tl.x, y + symbol.tl.y, tex.x, tex.y, sizeVertex)
        v2 == addVertex(v1, labelAnchor.x, labelAnchor.y,
                        symbol.tr.x, y + symbol.tr.y, tex.x + tex.w, tex.y, sizeVertex)
        v3 == addVertex(v2, labelAnchor.x, labelAnchor.y,
                        symbol.bl.x, y + symbol.bl.y, tex.x, tex.y + tex.h, sizeVertex)
        v4 == addVertex(v3, labelAnchor.x, labelAnchor.y,
                        symbol.br.x, y + symbol.br.y, tex.x + tex.w, tex.y + tex.h,
                        sizeVertex)
    IN  [arrays |->
            [a0 EXCEPT
                !.layoutVertexArray = v4,
                !.dynamicLayoutVertexArray =
                    addDynamicAttributes(@, labelAnchor, 0, placementZoom),
                !.opacityVertexArray = @ \o <<0, 0, 0, 0>>,
                !.indexArray = @ \o
                    << [seg |-> n, v |-> <<index, index + 1, index + 2>>],
                       [seg |-> n, v |-> <<index + 1, index + 2, index + 3>>] >>,
                !.segments[n].vertexLength = @ + 4,
                !.segments[n].primitiveLength = @ + 2],
         glyphOffsetArray |-> Append(st.glyphOffsetArray, symbol.glyphOffset[1])]

\* addSymbols, the body of its loop: one quad
addQuad(st, symbol, sizeVertex, labelAnchor, placementZoom) ==
    LET a0 == prepareSegment(st.arrays, 4)
        n == Len(a0.segments)
        index == a0.segments[n].vertexLength
        y == symbol.glyphOffset[2]
        tex == symbol.tex
        v1 == addVertex(a0.layoutVertexArray, labelAnchor.x, labelAnchor.y,
                        symbol.tl.x, y + symbol.tl.y, tex.x, tex.y, sizeVertex)
        v2 == addVertex(v1, labelAnchor.x, labelAnchor.y,
                        symbol.tr.x, y + symbol.tr.y, tex.x + tex.w, tex.y, sizeVertex)
        v3 == addVertex(v2, labelAnchor.x, labelAnchor.y,
                        symbol.bl.x, y + symbol.bl.y, tex.x, tex.y + tex.h, sizeVertex)
        v4 == addVertex(v3, labelAnchor.x, labelAnchor.y,
                        symbol.br.x, y + symbol.br.y, tex.x + tex.w, tex.y + tex.h,
                        sizeVertex)
    IN  [arrays |->
            [a0 EXCEPT
                !.layoutVertexArray = v4,
                !.dynamicLayoutVertexArray =
                    addDynamicAttributes(@, labelAnchor, 0, placementZoom),
                !.opacityVertexArray = @ \o <<0, 0, 0, 0>>,
                !.indexArray = @ \o
                    << [seg |-> n, v |-> <<index, index + 1, index + 2>>],
                       [seg |-> n, v |-> <<index + 1, index + 2, index + 3>>] >>,
                !.segments[n].vertexLength = @ + 4,
                !.segments[n].primitiveLength = @ + 2],
         glyphOffsetArray |-> Append(st.glyphOffsetArray, symbol.glyphOffset[1])]

\* addSymbols, its loop: for (const symbol of quads)
RECURSIVE addQuads(_, _, _, _, _)
addQuads(st, quads, sizeVertex, labelAnchor, placementZoom) ==
    IF quads = <<>> THEN st
    ELSE LET next == addQuad(st, Head(quads), sizeVertex, labelAnchor, placementZoom)
         IN  \* the test is always true: it has TLC evaluate this quad before the next
             IF Len(next.glyphOffsetArray) > Len(st.glyphOffsetArray)
             THEN addQuads(next, Tail(quads), sizeVertex, labelAnchor, placementZoom)
             ELSE next

\* PlacedSymbolArray.emplaceBack: the members as the struct array stores them
PlacedSymbol(anchorX, anchorY, glyphStartIndex, numGlyphs, lineStartIndex, lineLength, segment, lowerSize, upperSize, lineOffsetX, lineOffsetY, placementZoom, writingMode, hidden) ==
    [anchorX |-> Int16(anchorX), anchorY |-> Int16(anchorY),
     glyphStartIndex |-> Uint16(glyphStartIndex), numGlyphs |-> Uint16(numGlyphs),
     lineStartIndex |-> Uint32(lineStartIndex), lineLength |-> Uint32(lineLength),
     segment |-> IF segment = NoSegment THEN 0 ELSE Uint16(segment),
     lowerSize |-> lowerSize, upperSize |-> upperSize,
     lineOffsetX |-> lineOffsetX, lineOffsetY |-> lineOffsetY,
     placementZoom |-> placementZoom, writingMode |-> writingMode,
     hidden |-> IF hidden THEN 1 ELSE 0]

\* addSymbols(arrays, quads, sizeVertex, lineOffset, alongLine, feature,
\*            writingMode, labelAnchor, lineStartIndex, lineLength, placedSymbolArray)
addSymbols(a, glyphs, placed, quads, sizeVertex, lineOffset, writingMode, labelAnchor, lineStartIndex, lineLength, z) ==
    LET placementZoom == z
        glyphOffsetArrayStart == Len(glyphs)
        st == addQuads([arrays |-> a, glyphOffsetArray |-> glyphs], quads,
                       sizeVertex, labelAnchor, placementZoom)
    IN  [arrays |-> [st.arrays EXCEPT
                        !.paintLength = Len(st.arrays.layoutVertexArray)],
         glyphOffsetArray |-> st.glyphOffsetArray,
         placedSymbolArray |->
            Append(placed,
                PlacedSymbol(labelAnchor.x, labelAnchor.y,
                    glyphOffsetArrayStart,
                    Len(st.glyphOffsetArray) - glyphOffsetArrayStart,
                    lineStartIndex, lineLength, labelAnchor.segment,
                    IF sizeVertex # <<>> THEN sizeVertex[1] ELSE 0,
                    IF sizeVertex # <<>> THEN sizeVertex[2] ELSE 0,
                    lineOffset[1], lineOffset[2],
                    placementZoom, writingMode, FALSE))]

\* addToLineVertexArray: the distance stored for vertex i (counted from 0)
\* of a line whose anchor lies on segment seg
RECURSIVE distanceFromAnchor(_, _, _)
distanceFromAnchor(anchor, line, i) ==
    IF i > anchor.segment
    THEN IF i = anchor.segment + 1
         THEN dist(anchor, line[anchor.segment + 2])
         ELSE distanceFromAnchor(anchor, line, i - 1) + dist(line[i + 1], line[i])
    ELSE IF i = anchor.segment
         THEN dist(anchor, line[anchor.segment + 1])
         ELSE distanceFromAnchor(anchor, line, i + 1) + dist(line[i + 1], line[i + 2])

\* LineVertexArray.emplaceBack: the members as the struct array stores them
LineVertex(x, y, tileUnitDistanceFromAnchor) ==
    [x |-> Int16(x), y |-> Int16(y),
     tileUnitDistanceFromAnchor |-> Int16(tileUnitDistanceFromAnchor)]

\* A version of addToLineVertexArray that stores the vertices after the
\* anchor's segment only.
addToLineVertexArrayForward(lva, anchor, line) ==
    LET lineStartIndex == Len(lva)
        thrown == anchor.segment # NoSegment /\ anchor.segment + 2 > Len(line)
        after ==
            IF anchor.segment # NoSegment /\ ~thrown
            THEN lva \o [i \in 1 .. Len(line) - anchor.segment - 1 |->
                    LineVertex(line[i + anchor.segment + 1].x,
                               line[i + anchor.segment + 1].y,
                               distanceFromAnchor(anchor, line, i + anchor.segment))]
            ELSE lva
    IN  [thrown |-> thrown,
         lineVertexArray |-> after,
         lineStartIndex |-> lineStartIndex,
         lineLength |-> Len(after) - lineStartIndex]

\* addToLineVertexArray(anchor, line).  anchor.dist(line[anchor.segment + 1])
\* reads the coordinates of its argument: it throws a TypeError, before
\* anything is appended, when the line has no vertex anchor.segment + 1.
addToLineVertexArray(lva, anchor, line) ==
    LET lineStartIndex == Len(lva)
        thrown == anchor.segment # NoSegment /\ anchor.segment + 2 > Len(line)
        after ==
            IF anchor.segment # NoSegment /\ ~thrown
            THEN lva \o [i \in 1 .. Len(line) |->
                    LineVertex(line[i].x, line[i].y,
                               distanceFromAnchor(anchor, line, i - 1))]
            ELSE lva
    IN  [thrown |-> thrown,
         lineVertexArray |-> after,
         lineStartIndex |-> lineStartIndex,
         lineLength |-> Len(after) - lineStartIndex]

\* _addCollisionDebugVertex(layoutVertexArray, collisionVertexArray, point, anchor, extrude)
addCollisionDebugVertex(a, point, anchor, extrude) ==
    [a EXCEPT
        !.collisionVertexArray = Append(@, <<0, 0>>),
        !.layoutVertexArray =
            Append(@, <<point.x, point.y, anchor.x, anchor.y, extrude.x, extrude.y>>)]

\* addCollisionDebugVertices(x1, y1, x2, y2, arrays, boxAnchorPoint, symbolInstance, isCircle)
addCollisionDebugVertices(x1, y1, x2, y2, a, boxAnchorPoint, anchor, isCircle) ==
    LET a0 == prepareSegment(a, 4)
        n == Len(a0.segments)
        index == a0.segments[n].vertexLength
        a1 == addCollisionDebugVertex(a0, boxAnchorPoint, anchor, Pt(x1, y1))
        a2 == addCollisionDebugVertex(a1, boxAnchorPoint, anchor, Pt(x2, y1))
        a3 == addCollisionDebugVertex(a2, boxAnchorPoint, anchor, Pt(x2, y2))
        a4 == addCollisionDebugVertex(a3, boxAnchorPoint, anchor, Pt(x1, y2))
    IN  IF isCircle
        THEN [a4 EXCEPT
                !.segments[n].vertexLength = @ + 4,
                !.indexArray = @ \o
                    << [seg |-> n, v |-> <<index, index + 1, index + 2>>],
                       [seg |-> n, v |-> <<index, index + 2, index + 3>>] >>,
                !.segments[n].primitiveLength = @ + 2]
        ELSE [a4 EXCEPT
                !.segments[n].vertexLength = @ + 4,
                !.indexArray = @ \o
                    << [seg |-> n, v |-> <<index, index + 1>>],
                       [seg |-> n, v |-> <<index + 1, index + 2>>],
                       [seg |-> n, v |-> <<index + 2, index + 3>>],
                       [seg |-> n, v |-> <<index + 3, index>>] >>,
                !.segments[n].primitiveLength = @ + 4]

\* the records of the collision box array: a box (radius 0) and a circle
CollisionBoxes ==
    { [x1 |-> -1, y1 |-> -1, x2 |-> 1, y2 |-> 1,
       anchorPoint |-> Pt(1, 0), radius |-> 0],
      [x1 |-> -2, y1 |-> -2, x2 |-> 2, y2 |-> 2,
       anchorPoint |-> Pt(2, 1), radius |-> 2] }

\* the numbers of quads a label is shaped into
QuadCounts == {0, 2, 2 ^ IndexBits - 1}

NoLineArray == [returned |-> FALSE, anchor |-> [x |-> 0, y |-> 0, segment |-> NoSegment],
                lineStartIndex |-> 0, lineLength |-> 0]

NoOp == [op |-> "none", target |-> "none", k |-> 0]

\* new SymbolBucket(options) and createArrays()
InitPack ==
    /\ zoom = 5
    /\ arrays = [t \in Targets |-> EmptyArrays(t)]
    /\ placedGlyphArray = <<>>
    /\ placedIconArray = <<>>
    /\ glyphOffsetArray = <<>>
    /\ lineVertexArray = <<>>
    /\ lineArray = NoLineArray
    /\ lastOp = NoOp
    /\ ops = 0

IdlePack == InitPack

\* const lineArray = bucket.addToLineVertexArray(anchor, line)
AddToLineVertexArray ==
    /\ ops < MaxPackCalls
    /\ \E line \in Lines : \E anchor \in Anchors(line) :
         LET r == addToLineVertexArray(lineVertexArray, anchor, line)
         IN  /\ lineVertexArray' = r.lineVertexArray
             /\ lineArray' = IF r.thrown THEN lineArray
                             ELSE [returned |-> TRUE, anchor |-> anchor,
                                   lineStartIndex |-> r.lineStartIndex,
                                   lineLength |-> r.lineLength]
             /\ lastOp' = [op |-> "addToLineVertexArray", target |-> "none", k |-> 0,
                           anchor |-> anchor, line |-> line, thrown |-> r.thrown]
    /\ ops' = ops + 1
    /\ UNCHANGED <<zoom, arrays, placedGlyphArray, placedIconArray, glyphOffsetArray>>

\* bucket.addSymbols(bucket.text, glyphQuads, ..., lineArray.lineStartIndex,
\*                   lineArray.lineLength, bucket.placedGlyphArray)
AddSymbolsText ==
    /\ ops < MaxPackCalls
    /\ lineArray.returned
    /\ \E k \in QuadCounts :
         LET r == addSymbols(arrays["text"], glyphOffsetArray, placedGlyphArray,
                             Quads(k), <<>>, <<0, 0>>, 1, lineArray.anchor,
                             lineArray.lineStartIndex, lineArray.lineLength, zoom)
         IN  /\ arrays' = [arrays EXCEPT !["text"] = r.arrays]
             /\ glyphOffsetArray' = r.glyphOffsetArray
             /\ placedGlyphArray' = r.placedSymbolArray
             /\ lastOp' = [op |-> "addSymbols", target |-> "text", k |-> k]
    /\ ops' = ops + 1
    /\ UNCHANGED <<zoom, placedIconArray, lineVertexArray, lineArray>>

\* bucket.addSymbols(bucket.icon, iconQuads, ..., lineArray.lineStartIndex,
\*                   lineArray.lineLength, bucket.placedIconArray)
AddSymbolsIcon ==
    /\ ops < MaxPackCalls
    /\ lineArray.returned
    /\ \E k \in QuadCounts :
         LET r == addSymbols(arrays["icon"], glyphOffsetArray, placedIconArray,
                             Quads(k), <<120, 120>>, <<0, 0>>, 0, lineArray.anchor,
                             lineArray.lineStartIndex, lineArray.lineLength, zoom)
         IN  /\ arrays' = [arrays EXCEPT !["icon"] = r.arrays]
             /\ glyphOffsetArray' = r.glyphOffsetArray
             /\ placedIconArray' = r.placedSymbolArray
             /\ lastOp' = [op |-> "addSymbols", target |-> "icon", k |-> k]
    /\ ops' = ops + 1
    /\ UNCHANGED <<zoom, placedGlyphArray, lineVertexArray, lineArray>>

\* this.addCollisionDebugVertices(x1, y1, x2, y2,
\*     isCircle ? this.collisionCircle : this.collisionBox, box.anchorPoint,
\*     symbolInstance, isCircle)
AddCollisionDebugVertices ==
    /\ ops < MaxPackCalls
    /\ \E box \in CollisionBoxes :
         LET isCircle == box.radius > 0
             t == IF isCircle THEN "collisionCircle" ELSE "collisionBox"
         IN  /\ arrays' = [arrays EXCEPT ![t] =
                    addCollisionDebugVertices(box.x1, box.y1, box.x2, box.y2,
                        arrays[t], box.anchorPoint, lineArray.anchor, isCircle)]
             /\ lastOp' = [op |-> "addCollisionDebugVertices", target |-> t, k |-> 1]
    /\ ops' = ops + 1
    /\ UNCHANGED <<zoom, placedGlyphArray, placedIconArray, glyphOffsetArray,
                   lineVertexArray, lineArray>>

(***************************************************************************)
(* Feature collector.  A text is a sequence of code units; the empty       *)
(* sequence stands for the empty string and for undefined, the two falsy   *)
(* values a text takes.  An icon name is a string, "" when absent.  In a   *)
(* text-field the code unit 0 stands for the token {name}; the icon-image  *)
(* "{maki}" is the token of the property maki.                             *)
(***************************************************************************)
Token == 0

Texts == { <<>>, <<97>>, <<19968, 33>> }
Icons == { "", "bus" }
TextFields == { <<>>, <<Token>>, <<Token, 33>> }
IconImages == { "", "{maki}" }
FontStacks == { "F", "G", "undefined" }

\* the layers a bucket is built for: layers[0], its layout and what it evaluates
Layers ==
    { l \in [textFieldConstant : BOOLEAN, textField : TextFields,
              textFont : {"F", "undefined"},
              iconImageConstant : BOOLEAN, iconImage : IconImages,
              textTransform : {"none", "uppercase"},
              rotationAlignment : {"map", "viewport"},
              symbolPlacement : {"point", "line"}] :
        \* a feature-dependent value is a function object: one value stands for it
        /\ ~l.textFieldConstant => l.textField = <<Token>>
        /\ ~l.iconImageConstant => l.iconImage = "{maki}" }

\* the features of a tile: whether the layer's filter takes the feature, and the
\* values its properties give the text and the icon
FeatureChoices == [passes : BOOLEAN, text : Texts, icon : Icons]

\* resolveTokens(feature.properties, text) on a text-field
RECURSIVE resolveTokens(_, _)
resolveTokens(name, text) ==
    IF text = <<>> THEN <<>>
    ELSE (IF Head(text) = Token THEN name ELSE <<Head(text)>>)
            \o resolveTokens(name, Tail(text))

\* resolveTokens(feature.properties, icon) on an icon-image
resolveIconTokens(maki, icon) == IF icon = "{maki}" THEN maki ELSE icon

\* transformText(text, layer, globalProperties, feature): text-transform
transformText(text, l) ==
    IF l.textTransform = "uppercase"
    THEN [i \in 1 .. Len(text) |-> IF text[i] = 97 THEN 65 ELSE text[i]]
    ELSE text

\* scriptDetection.allowsVerticalWritingMode(text)
allowsVerticalWritingMode(text) == \E i \in 1 .. Len(text) : text[i] = 19968

\* verticalizePunctuation.lookup[char], 0 when the character has no mapping
verticalizePunctuation(c) == IF c = 33 THEN 65045 ELSE 0

\* populate: hasText
hasText(l) ==
    /\ (~l.textFieldConstant \/ l.textField # <<>>)
    /\ l.textFont # "undefined"

\* populate: hasIcon
hasIcon(l) == ~l.iconImageConstant \/ l.iconImage # ""

\* populate: the text of a feature, before the test that drops it
featureText(l, f) ==
    IF hasText(l)
    THEN LET v == IF l.textFieldConstant THEN l.textField ELSE f.text
             r == IF l.textFieldConstant THEN resolveTokens(f.text, v) ELSE v
         IN  transformText(r, l)
    ELSE <<>>

\* populate: the icon of a feature, before the test that drops it
featureIcon(l, f) ==
    IF hasIcon(l)
    THEN LET v == IF l.iconImageConstant THEN l.iconImage ELSE f.icon
         IN  IF l.iconImageConstant THEN resolveIconTokens(f.icon, v) ELSE v
    ELSE ""

\* A test that keeps every feature.
keepsFeatureAlways(text, icon) == TRUE

\* populate: if (!text && !icon) continue
keepsFeature(text, icon) == ~(text = <<>> /\ icon = "")

\* A test of the placement mode alone.
textAlongLineAnyAlignment(l) == l.symbolPlacement = "line"

\* populate: textAlongLine
textAlongLine(l) == l.rotationAlignment = "map" /\ l.symbolPlacement = "line"

\* populate: the code units one retained text adds to its font stack
glyphsOf(l, text) ==
    { text[i] : i \in 1 .. Len(text) }
        \cup { verticalizePunctuation(text[i]) :
                    i \in { j \in 1 .. Len(text) :
                              /\ textAlongLine(l)
                              /\ allowsVerticalWritingMode(text)
                              /\ verticalizePunctuation(text[j]) # 0 } }

\* mergeLines(features): a line that starts where an earlier line of the same
\* text ends is merged into it
RECURSIVE mergeLines(_, _)
mergeLines(merged, rest) ==
    IF rest = <<>> THEN merged
    ELSE LET f == Head(rest)
             into == { i \in 1 .. Len(merged) :
                         /\ f.text # <<>>
                         /\ merged[i].text = f.text
                         /\ merged[i].geometry[2] = f.geometry[1] }
         IN  IF into = {}
             THEN mergeLines(Append(merged, f), Tail(rest))
             ELSE LET i == CHOOSE j \in into : \A k \in into : j <= k
                  IN  mergeLines([merged EXCEPT ![i].geometry[2] = f.geometry[2]],
                                 Tail(rest))

\* populate: its loop over the features
RECURSIVE collect(_, _, _)
collect(l, st, rest) ==
    IF rest = <<>> THEN st
    ELSE LET f == Head(rest)
             text == featureText(l, f)
             icon == featureIcon(l, f)
         IN  IF ~f.passes \/ ~keepsFeature(text, icon)
             THEN collect(l, st, Tail(rest))
             ELSE collect(l,
                    [features |-> Append(st.features,
                        [text |-> text, icon |-> icon, index |-> f.index,
                         geometry |-> f.geometry]),
                     icons |-> IF icon # "" THEN st.icons \cup {icon} ELSE st.icons,
                     stack |-> IF text # <<>> THEN st.stack \cup glyphsOf(l, text)
                               ELSE st.stack],
                    Tail(rest))

\* A populate that looks its font stack up before it tests hasText and hasIcon.
populateEager(l, fs, stacks, icons) ==
    LET st == collect(l, [features |-> <<>>, icons |-> icons,
                          stack |-> IF stacks[l.textFont].present
                                    THEN stacks[l.textFont].codes ELSE {}],
                      IF ~hasText(l) /\ ~hasIcon(l) THEN <<>> ELSE fs)
    IN  [features |-> IF l.symbolPlacement = "line"
                      THEN mergeLines(<<>>, st.features) ELSE st.features,
         glyphDependencies |->
            [stacks EXCEPT ![l.textFont] = [present |-> TRUE, codes |-> st.stack]],
         iconDependencies |-> st.icons]

\* populate(features, options)
populate(l, fs, stacks, icons) ==
    IF ~hasText(l) /\ ~hasIcon(l)
    THEN [features |-> <<>>, glyphDependencies |-> stacks, iconDependencies |-> icons]
    ELSE LET st == collect(l, [features |-> <<>>, icons |-> icons,
                               stack |-> IF stacks[l.textFont].present
                                         THEN stacks[l.textFont].codes ELSE {}],
                           fs)
         IN  [features |-> IF l.symbolPlacement = "line"
                           THEN mergeLines(<<>>, st.features) ELSE st.features,
              glyphDependencies |->
                 [stacks EXCEPT ![l.textFont] =
                    [present |-> TRUE, codes |-> st.stack]],
              iconDependencies |-> st.icons]

\* the dependency sets of a tile: new, or holding what another layer asked for
NoStacks == [k \in FontStacks |-> [present |-> FALSE, codes |-> {}]]

StacksOfTile ==
    { NoStacks,
      [NoStacks EXCEPT !["G"] = [present |-> TRUE, codes |-> {97}]] }

NoPopulate == [called |-> FALSE, features |-> <<>>,
               glyphDependencies |-> NoStacks, iconDependencies |-> {}]

\* new SymbolBucket(options) for one of the layers, in a tile's parse
InitPopulate ==
    /\ layer \in Layers
    /\ features = <<>>
    /\ glyphDependencies \in StacksOfTile
    /\ iconDependencies = (IF glyphDependencies = NoStacks THEN {} ELSE {"star"})
    /\ populateIn = NoPopulate

IdlePopulate ==
    /\ layer = CHOOSE l \in Layers : ~hasText(l) /\ ~hasIcon(l)
    /\ features = <<>>
    /\ glyphDependencies = NoStacks
    /\ iconDependencies = {}
    /\ populateIn = NoPopulate

\* the features of a tile: feature j runs from point j - 1 to point j
IndexedFeatures(choice) ==
    [j \in 1 .. Len(choice) |->
        [passes |-> choice[j].passes, text |-> choice[j].text,
         icon |-> choice[j].icon, index |-> j, geometry |-> <<j - 1, j>>]]

\* bucket.populate(features, options)
Populate ==
    /\ ~populateIn.called
    /\ \E n \in 0 .. MaxFeatures : \E choice \in [1 .. n -> FeatureChoices] :
         LET fs == IndexedFeatures(choice)
             r == populate(layer, fs, glyphDependencies, iconDependencies)
         IN  /\ features' = r.features
             /\ glyphDependencies' = r.glyphDependencies
             /\ iconDependencies' = r.iconDependencies
             /\ populateIn' = [called |-> TRUE, features |-> fs,
                               glyphDependencies |-> glyphDependencies,
                               iconDependencies |-> iconDependencies]
    /\ UNCHANGED layer

(***************************************************************************)
(* Size interpolator.  Zoom levels are counted in 1/ZoomUnit of a level,   *)
(* so that a stop may lie between two tile zooms.                          *)
(***************************************************************************)
\* getSizeData: the position of the lower stop, counted from 0
RECURSIVE lowerCount(_, _, _)
lowerCount(levels, tileZoom, lower) ==
    IF lower < Len(levels) /\ levels[lower + 1] <= tileZoom
    THEN lowerCount(levels, tileZoom, lower + 1)
    ELSE lower

\* getSizeData: the position of the upper stop, counted from 0
RECURSIVE upperCount(_, _, _)
upperCount(levels, tileZoom, upper) ==
    IF upper < Len(levels) /\ levels[upper + 1] < tileZoom + ZoomUnit
    THEN upperCount(levels, tileZoom, upper + 1)
    ELSE upper

Max(a, b) == IF a >= b THEN a ELSE b
Min(a, b) == IF a <= b THEN a ELSE b

\* A covering range whose lower stop is the first stop above the tile zoom.
coveringZoomRangeNoStepBack(levels, tileZoom) ==
    LET lower == Min(Len(levels) - 1, lowerCount(levels, tileZoom, 0))
        upper == Min(Len(levels) - 1, upperCount(levels, tileZoom, lower))
    IN  <<levels[lower + 1], levels[upper + 1]>>

\* getSizeData: the covering zoom stops of a zoom-dependent value
coveringZoomRange(levels, tileZoom) ==
    LET lower == Max(0, lowerCount(levels, tileZoom, 0) - 1)
        upper == Min(Len(levels) - 1, upperCount(levels, tileZoom, lower))
    IN  <<levels[lower + 1], levels[upper + 1]>>

\* getSizeData(tileZoom, layer, sizeProperty); the sizes are named by the zoom
\* levels getLayoutValue is asked for
getSizeData(tileZoom, isFeatureConstant, isZoomConstant, levels) ==
    IF isZoomConstant /\ ~isFeatureConstant
    THEN [functionType |-> "source", layoutSize |-> <<>>,
          coveringZoomRange |-> <<>>, coveringStopValues |-> <<>>]
    ELSE IF isZoomConstant /\ isFeatureConstant
    THEN [functionType |-> "constant", layoutSize |-> <<tileZoom + ZoomUnit>>,
          coveringZoomRange |-> <<>>, coveringStopValues |-> <<>>]
    ELSE LET range == coveringZoomRange(levels, tileZoom)
         IN  IF ~isFeatureConstant
             THEN [functionType |-> "composite", layoutSize |-> <<>>,
                   coveringZoomRange |-> range, coveringStopValues |-> <<>>]
             ELSE [functionType |-> "camera", layoutSize |-> <<tileZoom + ZoomUnit>>,
                   coveringZoomRange |-> range, coveringStopValues |-> range]

\* the ascending lists of declared stop levels
RECURSIVE ascending(_)
ascending(S) ==
    IF S = {} THEN <<>>
    ELSE LET m == CHOOSE x \in S : \A y \in S : x <= y
         IN  <<m>> \o ascending(S \ {m})

StopLevels == { ascending(S) : S \in (SUBSET (0 .. MaxStop * ZoomUnit)) \ {{}} }

NoSizeCall == [called |-> FALSE, tileZoom |-> 0, isFeatureConstant |-> TRUE,
               isZoomConstant |-> TRUE, levels |-> <<>>,
               sizeData |-> [functionType |-> "none", layoutSize |-> <<>>,
                             coveringZoomRange |-> <<>>, coveringStopValues |-> <<>>]]

InitSize == sizeCall = NoSizeCall

IdleSize == InitSize

\* this.textSizeData = getSizeData(this.zoom, layer, 'text-size')
GetSizeData ==
    /\ ~sizeCall.called
    /\ \E z \in 0 .. MaxStop + 1, fc \in BOOLEAN, zc \in BOOLEAN, levels \in StopLevels :
         sizeCall' = [called |-> TRUE, tileZoom |-> z * ZoomUnit,
                      isFeatureConstant |-> fc, isZoomConstant |-> zc,
                      levels |-> levels,
                      sizeData |-> getSizeData(z * ZoomUnit, fc, zc, levels)]

(***************************************************************************)
(* Collision records.  The collision box array is filled by the layout     *)
(* before the bucket reads it; a symbol instance's text records are        *)
(* followed by its icon records.                                           *)
(***************************************************************************)
\* the values of a record's radius member
BoxRadii == {-1, 0, 2}

InstanceCounts == {1, 2}

\* CollisionBoxArray.get(k): record k (counted from 0) with the given radius
CollisionBox(k, radius) ==
    [x1 |-> -1 - k, y1 |-> -1, x2 |-> 1 + k, y2 |-> 1,
     anchorPoint |-> Pt(k, 1), anchorPointX |-> k, anchorPointY |-> 1,
     radius |-> radius, distanceToAnchor |-> k]

CollisionBoxArrays ==
    UNION { { [k \in 1 .. n |-> CollisionBox(k - 1, r[k])] : r \in [1 .. n -> BoxRadii] }
            : n \in 0 .. MaxBoxes }

\* symbol instance j of a bucket, its text range from cuts[2j-1] to cuts[2j]
\* and its icon range from cuts[2j] to cuts[2j+1]
SymbolInstance(j, cuts) ==
    [anchor |-> Pt(j, j),
     textBoxStartIndex |-> cuts[2 * j - 1], textBoxEndIndex |-> cuts[2 * j],
     iconBoxStartIndex |-> cuts[2 * j], iconBoxEndIndex |-> cuts[2 * j + 1],
     textCollisionFeature |-> <<>>, iconCollisionFeature |-> <<>>]

\* the symbol instance lists over a collision box array of len records
SymbolInstanceLists(len) ==
    UNION { { [j \in 1 .. m |-> SymbolInstance(j, cuts)] :
                cuts \in { c \in [1 .. 2 * m + 1 -> 0 .. len] :
                             \A i \in 1 .. 2 * m : c[i] <= c[i + 1] } }
            : m \in InstanceCounts }

\* generateCollisionDebugBuffers, the loop over b: the records b .. boxEndIndex - 1.
\* calls lists the addCollisionDebugVertices calls made: record and Buffer Set.
RECURSIVE emitCollisionFeature(_, _, _, _, _)
emitCollisionFeature(st, cba, symbolInstance, b, boxEndIndex) ==
    IF b >= boxEndIndex THEN st
    ELSE LET box == cba[b + 1]
             isCircle == box.radius > 0
             t == IF isCircle THEN "collisionCircle" ELSE "collisionBox"
             next == [arrays |-> [st.arrays EXCEPT ![t] =
                          addCollisionDebugVertices(box.x1, box.y1, box.x2, box.y2,
                              st.arrays[t], box.anchorPoint, symbolInstance.anchor,
                              isCircle)],
                      calls |-> Append(st.calls, [b |-> b, target |-> t])]
         IN  \* the test is always true: it has TLC evaluate this record before the next
             IF Len(next.calls) > Len(st.calls)
             THEN emitCollisionFeature(next, cba, symbolInstance, b + 1, boxEndIndex)
             ELSE next

\* A version of the loop body that leaves out the icon collision feature.
emitSymbolInstanceTextOnly(st, cba, symbolInstance) ==
    LET text == [boxStartIndex |-> symbolInstance.textBoxStartIndex,
                 boxEndIndex |-> symbolInstance.textBoxEndIndex]
        icon == [boxStartIndex |-> symbolInstance.iconBoxStartIndex,
                 boxEndIndex |-> symbolInstance.iconBoxEndIndex]
        si == [symbolInstance EXCEPT !.textCollisionFeature = text,
                                     !.iconCollisionFeature = icon]
        afterText == emitCollisionFeature([arrays |-> st.arrays, calls |-> st.calls],
                         cba, si, text.boxStartIndex, text.boxEndIndex)
    IN  [arrays |-> afterText.arrays, calls |-> afterText.calls,
         symbolInstances |-> Append(st.symbolInstances, si)]

\* generateCollisionDebugBuffers, the body of its outer loop: the text
\* collision feature, then the icon collision feature of one instance
emitSymbolInstance(st, cba, symbolInstance) ==
    LET text == [boxStartIndex |-> symbolInstance.textBoxStartIndex,
                 boxEndIndex |-> symbolInstance.textBoxEndIndex]
        icon == [boxStartIndex |-> symbolInstance.iconBoxStartIndex,
                 boxEndIndex |-> symbolInstance.iconBoxEndIndex]
        si == [symbolInstance EXCEPT !.textCollisionFeature = text,
                                     !.iconCollisionFeature = icon]
        afterText == emitCollisionFeature([arrays |-> st.arrays, calls |-> st.calls],
                         cba, si, text.boxStartIndex, text.boxEndIndex)
        afterIcon == emitCollisionFeature(afterText,
                         cba, si, icon.boxStartIndex, icon.boxEndIndex)
    IN  [arrays |-> afterIcon.arrays, calls |-> afterIcon.calls,
         symbolInstances |-> Append(st.symbolInstances, si)]

\* generateCollisionDebugBuffers()
RECURSIVE generateCollisionDebugBuffers(_, _, _)
generateCollisionDebugBuffers(st, cba, rest) ==
    IF rest = <<>> THEN st
    ELSE generateCollisionDebugBuffers(emitSymbolInstance(st, cba, Head(rest)),
                                       cba, Tail(rest))

\* A version of deserializeCollisionBoxes that stops at the first circle and
\* returns what it has flattened so far.
deserializeCollisionBoxesPartial(cba, startIndex, endIndex) ==
    LET RECURSIVE loop(_, _)
        loop(k, boxes) ==
            IF k >= endIndex THEN boxes
            ELSE LET box == cba[k + 1]
                 IN  IF box.radius # 0 THEN boxes
                     ELSE loop(k + 1, boxes \o <<box.x1, box.y1, box.x2, box.y2,
                                                box.anchorPointX, box.anchorPointY>>)
    IN  loop(startIndex, <<>>)

\* deserializeCollisionBoxes(collisionBoxArray, startIndex, endIndex)
deserializeCollisionBoxes(cba, startIndex, endIndex) ==
    LET RECURSIVE loop(_, _)
        loop(k, boxes) ==
            IF k >= endIndex THEN boxes
            ELSE LET box == cba[k + 1]
                 IN  IF box.radius # 0 THEN <<>>
                     ELSE loop(k + 1, boxes \o <<box.x1, box.y1, box.x2, box.y2,
                                                box.anchorPointX, box.anchorPointY>>)
    IN  loop(startIndex, <<>>)

\* deserializeCollisionCircles(collisionBoxArray, startIndex, endIndex)
deserializeCollisionCircles(cba, startIndex, endIndex) ==
    LET RECURSIVE loop(_, _)
        loop(k, circles) ==
            IF k >= endIndex THEN circles
            ELSE LET circle == cba[k + 1]
                 IN  IF circle.radius = 0 THEN <<>>
                     ELSE loop(k + 1, circles \o <<circle.anchorPointX, circle.anchorPointY,
                                                   circle.radius, circle.distanceToAnchor,
                                                   FALSE>>)
    IN  loop(startIndex, <<>>)

NoFlat == [op |-> "none", startIndex |-> 0, endIndex |-> 0, result |-> <<>>]

\* new SymbolBucket(options), with the collision box array and the symbol
\* instances the layout made
InitCollision ==
    /\ collisionBoxArray \in CollisionBoxArrays
    /\ symbolInstances \in SymbolInstanceLists(Len(collisionBoxArray))
    /\ flat = NoFlat

IdleCollision ==
    /\ collisionBoxArray = <<>>
    /\ symbolInstances = <<>>
    /\ flat = NoFlat

\* bucket.generateCollisionDebugBuffers(), called once on the empty
\* collisionBox and collisionCircle Buffer Sets
GenerateCollisionDebugBuffers ==
    /\ lastOp.op # "generateCollisionDebugBuffers"
    /\ arrays["collisionBox"] = EmptyArrays("collisionBox")
    /\ arrays["collisionCircle"] = EmptyArrays("collisionCircle")
    /\ LET r == generateCollisionDebugBuffers(
                    [arrays |-> arrays, calls |-> <<>>, symbolInstances |-> <<>>],
                    collisionBoxArray, symbolInstances)
       IN  /\ arrays' = r.arrays
           /\ symbolInstances' = r.symbolInstances
           /\ lastOp' = [op |-> "generateCollisionDebugBuffers", target |-> "none",
                         k |-> Len(r.calls), calls |-> r.calls]
    /\ ops' = ops + 1
    /\ UNCHANGED <<zoom, placedGlyphArray, placedIconArray, glyphOffsetArray,
                   lineVertexArray, lineArray, collisionBoxArray, flat>>

\* bucket.deserializeCollisionBoxes(collisionBoxArray, startIndex, endIndex)
DeserializeCollisionBoxes ==
    /\ \E startIndex \in 0 .. Len(collisionBoxArray) :
       \E endIndex \in startIndex .. Len(collisionBoxArray) :
         flat' = [op |-> "deserializeCollisionBoxes",
                  startIndex |-> startIndex, endIndex |-> endIndex,
                  result |-> deserializeCollisionBoxes(collisionBoxArray,
                                                       startIndex, endIndex)]
    /\ UNCHANGED <<packVars, collisionBoxArray, symbolInstances>>

\* bucket.deserializeCollisionCircles(collisionBoxArray, startIndex, endIndex)
DeserializeCollisionCircles ==
    /\ \E startIndex \in 0 .. Len(collisionBoxArray) :
       \E endIndex \in startIndex .. Len(collisionBoxArray) :
         flat' = [op |-> "deserializeCollisionCircles",
                  startIndex |-> startIndex, endIndex |-> endIndex,
                  result |-> deserializeCollisionCircles(collisionBoxArray,
                                                         startIndex, endIndex)]
    /\ UNCHANGED <<packVars, collisionBoxArray, symbolInstances>>

(***************************************************************************)
(* Serialization bridge: the worker's bucket is serialized and the main    *)
(* thread constructs its bucket from the serialized form.                  *)
(***************************************************************************)
\* no serialize call was made yet, no bucket was constructed from one
IdleTransfer ==
    /\ serialized = Undefined
    /\ rebuilt = Undefined

\* SymbolBucket.serialize(transferables)
SymbolBucket_serialize ==
    /\ serialized = Undefined
    /\ serialized' =
          [zoom |-> zoom,
           placedGlyphArray |-> serializeArray(placedGlyphArray),
           placedIconArray |-> serializeArray(placedIconArray),
           glyphOffsetArray |-> serializeArray(glyphOffsetArray),
           lineVertexArray |-> serializeArray(lineVertexArray),
           text |-> serialize(arrays["text"]),
           icon |-> serialize(arrays["icon"]),
           collisionBox |-> serialize(arrays["collisionBox"]),
           collisionCircle |-> serialize(arrays["collisionCircle"]),
           symbolInstances |-> symbolInstances]
    /\ UNCHANGED <<packVars, collVars, rebuilt>>

\* new SymbolBucket(options), options being a serialized bucket (options.text
\* is set)
SymbolBucket_constructor ==
    /\ serialized # Undefined
    /\ rebuilt = Undefined
    /\ rebuilt' =
          [zoom |-> serialized.zoom,
           text |-> newSymbolBuffers("text", serialized.text),
           icon |-> newSymbolBuffers("icon", serialized.icon),
           collisionBox |-> newSymbolBuffers("collisionBox", serialized.collisionBox),
           collisionCircle |->
               newSymbolBuffers("collisionCircle", serialized.collisionCircle),
           placedGlyphArray |-> StructArray(serialized.placedGlyphArray),
           placedIconArray |-> StructArray(serialized.placedIconArray),
           glyphOffsetArray |-> StructArray(serialized.glyphOffsetArray),
           lineVertexArray |-> StructArray(serialized.lineVertexArray),
           symbolInstances |-> serialized.symbolInstances]
    /\ UNCHANGED <<packVars, collVars, serialized>>

(***************************************************************************)
(* The specifications.                                                     *)
(***************************************************************************)
InitLifecycle == InitBuffers /\ IdlePack /\ IdlePopulate /\ IdleSize /\ IdleCollision /\ IdleTransfer

NextLifecycle ==
    \/ (\E t \in Targets : UploadSet(t)) /\ UNCHANGED <<packVars, popVars, sizeVars, collVars, transferVars>>
    \/ (\E t \in Targets : DestroySet(t)) /\ UNCHANGED <<packVars, popVars, sizeVars, collVars, transferVars>>
    \/ SymbolBucket_upload /\ UNCHANGED <<packVars, popVars, sizeVars, collVars, transferVars>>
    \/ SymbolBucket_destroy /\ UNCHANGED <<packVars, popVars, sizeVars, collVars, transferVars>>

SpecLifecycle == InitLifecycle /\ [][NextLifecycle]_vars

InitPacker == IdleBuffers /\ InitPack /\ IdlePopulate /\ IdleSize /\ IdleCollision /\ IdleTransfer

NextPacker ==
    \/ AddToLineVertexArray /\ UNCHANGED <<lifeVars, popVars, sizeVars, collVars, transferVars>>
    \/ AddSymbolsText /\ UNCHANGED <<lifeVars, popVars, sizeVars, collVars, transferVars>>
    \/ AddSymbolsIcon /\ UNCHANGED <<lifeVars, popVars, sizeVars, collVars, transferVars>>
    \/ AddCollisionDebugVertices /\ UNCHANGED <<lifeVars, popVars, sizeVars, collVars, transferVars>>

SpecPack == InitPacker /\ [][NextPacker]_vars

InitCollector == IdleBuffers /\ IdlePack /\ InitPopulate /\ IdleSize /\ IdleCollision /\ IdleTransfer

NextCollector == Populate /\ UNCHANGED <<lifeVars, packVars, sizeVars, collVars, transferVars>>

SpecPopulate == InitCollector /\ [][NextCollector]_vars

InitSizes == IdleBuffers /\ IdlePack /\ IdlePopulate /\ InitSize /\ IdleCollision /\ IdleTransfer

NextSizes == GetSizeData /\ UNCHANGED <<lifeVars, packVars, popVars, collVars, transferVars>>

SpecSize == InitSizes /\ [][NextSizes]_vars

InitCollisions ==
    IdleBuffers /\ InitPack /\ IdlePopulate /\ IdleSize /\ InitCollision /\ IdleTransfer

NextCollisions ==
    \/ GenerateCollisionDebugBuffers /\ UNCHANGED <<lifeVars, popVars, sizeVars, transferVars>>
    \/ DeserializeCollisionBoxes /\ UNCHANGED <<lifeVars, popVars, sizeVars, transferVars>>
    \/ DeserializeCollisionCircles /\ UNCHANGED <<lifeVars, popVars, sizeVars, transferVars>>

SpecCollision == InitCollisions /\ [][NextCollisions]_vars

\* the worker fills the bucket, serializes it when it is done, and the main
\* thread constructs its bucket from the serialized form
InitTransfers ==
    IdleBuffers /\ InitPack /\ IdlePopulate /\ IdleSize /\ IdleCollision /\ IdleTransfer

NextTransfers ==
    \/ /\ serialized = Undefined
       /\ AddToLineVertexArray
       /\ UNCHANGED <<lifeVars, popVars, sizeVars, collVars, transferVars>>
    \/ /\ serialized = Undefined
       /\ AddSymbolsText
       /\ UNCHANGED <<lifeVars, popVars, sizeVars, collVars, transferVars>>
    \/ /\ serialized = Undefined
       /\ AddSymbolsIcon
       /\ UNCHANGED <<lifeVars, popVars, sizeVars, collVars, transferVars>>
    \/ /\ serialized = Undefined
       /\ AddCollisionDebugVertices
       /\ UNCHANGED <<lifeVars, popVars, sizeVars, collVars, transferVars>>
    \/ SymbolBucket_serialize /\ UNCHANGED <<lifeVars, popVars, sizeVars>>
    \/ SymbolBucket_constructor /\ UNCHANGED <<lifeVars, popVars, sizeVars>>

SpecTransfer == InitTransfers /\ [][NextTransfers]_vars

(***************************************************************************)
(* The claims.                                                             *)
(***************************************************************************)
\* C1: for a Buffer Set that has been uploaded (once), however many times destroy
\* is called, every GPU resource of the set (its buffer objects, its paint
\* configurations, its segments) is released at most once.
C1_DestroyReleasesOnce ==
    \A t \in Targets :
        LET s == buffers[t]
        IN  s.uploadCalls = 1 =>
                /\ \A i \in 1 .. Len(s.gpu) : s.gpu[i].destroyCalls <= 1
                /\ s.programConfigurations.destroyCalls <= 1
                /\ s.segments.destroyCalls <= 1

\* C2: a Buffer Set that was never uploaded has, however many times destroy was
\* called on it, no buffer, and no release call was made on its paint
\* configurations or its segments: every field is as the constructor left it.
C2_DestroyNeverUploadedIsNoOp ==
    \A t \in Targets :
        LET s == buffers[t]
        IN  s.uploadCalls = 0 =>
                /\ s.fields = NoBuffer
                /\ s.gpu = <<>>
                /\ s.programConfigurations = [uploadCalls |-> 0, destroyCalls |-> 0]
                /\ s.segments = [destroyCalls |-> 0]

C2_Witness ==
    \E t \in Targets : buffers[t].uploadCalls = 0 /\ buffers[t].destroyCalls >= 2

\* C3: the layout, dynamic and opacity vertex arrays of the text and of the icon
\* Buffer Set have the same length, and so have the layout and the collision
\* vertex arrays of the two debug Buffer Sets.
C3_VertexArraysSameLength ==
    /\ \A t \in {"text", "icon"} :
          /\ Len(arrays[t].dynamicLayoutVertexArray) = Len(arrays[t].layoutVertexArray)
          /\ Len(arrays[t].opacityVertexArray) = Len(arrays[t].layoutVertexArray)
    /\ \A t \in {"collisionBox", "collisionCircle"} :
          Len(arrays[t].collisionVertexArray) = Len(arrays[t].layoutVertexArray)

C3_Witness ==
    /\ Len(arrays["text"].layoutVertexArray) > 4
    /\ Len(arrays["icon"].layoutVertexArray) > 0
    /\ Len(arrays["collisionBox"].layoutVertexArray) > 0

\* C4: every index value written to an index array fits in the index width and
\* is smaller than the vertex count of the segment it was written for, and no
\* segment holds more vertices than the index width can address.
C4_IndicesWithinSegment ==
    \A t \in Targets :
        LET a == arrays[t]
        IN  /\ \A i \in 1 .. Len(a.indexArray) :
                  \A j \in 1 .. Len(a.indexArray[i].v) :
                      /\ a.indexArray[i].v[j] >= 0
                      /\ a.indexArray[i].v[j] <= 2 ^ IndexBits - 1
                      /\ a.indexArray[i].v[j] < a.segments[a.indexArray[i].seg].vertexLength
            /\ \A n \in 1 .. Len(a.segments) :
                  a.segments[n].vertexLength <= 2 ^ IndexBits - 1

C4_Witness ==
    /\ Len(arrays["text"].segments) >= 2
    /\ arrays["text"].segments[2].vertexLength > 0
    /\ Len(arrays["collisionBox"].indexArray) > 0

\* the ranges [s1, s1 + n1) and [s2, s2 + n2) are disjoint or equal
DisjointOrEqual(s1, n1, s2, n2) ==
    \/ n1 = 0
    \/ n2 = 0
    \/ s1 + n1 <= s2
    \/ s2 + n2 <= s1
    \/ (s1 = s2 /\ n1 = n2)

PlacedSymbols ==
    { placedGlyphArray[i] : i \in 1 .. Len(placedGlyphArray) }
        \cup { placedIconArray[i] : i \in 1 .. Len(placedIconArray) }

\* C5: the glyph ranges of every two placement-summary entries, as stored, are
\* disjoint or equal, and so are their line ranges.
C5_RangesDisjointOrEqual ==
    \A e1 \in PlacedSymbols : \A e2 \in PlacedSymbols :
        /\ DisjointOrEqual(e1.glyphStartIndex, e1.numGlyphs,
                           e2.glyphStartIndex, e2.numGlyphs)
        /\ DisjointOrEqual(e1.lineStartIndex, e1.lineLength,
                           e2.lineStartIndex, e2.lineLength)

\* the sum of a member over the segments of a Buffer Set
RECURSIVE SumVertexLength(_)
SumVertexLength(segs) ==
    IF segs = <<>> THEN 0 ELSE Head(segs).vertexLength + SumVertexLength(Tail(segs))

RECURSIVE SumPrimitiveLength(_)
SumPrimitiveLength(segs) ==
    IF segs = <<>> THEN 0 ELSE Head(segs).primitiveLength + SumPrimitiveLength(Tail(segs))

\* C6: one addSymbols call with k quads adds 4k layout vertices, 2k triangle
\* records, k glyph offsets, 4k and 2k to the sums of the segment counters, and one
\* placement-summary entry with numGlyphs k, glyphStartIndex the glyph-offset
\* array's length before the call, placementZoom the bucket zoom and hidden false;
\* one addCollisionDebugVertices call adds 4 vertices and 4 line-edge records
\* (box) or 2 triangle records (circle).
C6_CountsPerCall ==
    [][ /\ (ops' = ops + 1 /\ lastOp'.op = "addSymbols") =>
            LET t == lastOp'.target
                k == lastOp'.k
                placed == IF t = "text" THEN placedGlyphArray ELSE placedIconArray
                placedAfter == IF t = "text" THEN placedGlyphArray' ELSE placedIconArray'
                e == placedAfter[Len(placedAfter)]
            IN  /\ Len(arrays'[t].layoutVertexArray)
                      = Len(arrays[t].layoutVertexArray) + 4 * k
                /\ Len(arrays'[t].indexArray) = Len(arrays[t].indexArray) + 2 * k
                /\ \A i \in 1 .. Len(arrays'[t].indexArray) :
                      Len(arrays'[t].indexArray[i].v) = 3
                /\ Len(glyphOffsetArray') = Len(glyphOffsetArray) + k
                /\ SumVertexLength(arrays'[t].segments)
                      = SumVertexLength(arrays[t].segments) + 4 * k
                /\ SumPrimitiveLength(arrays'[t].segments)
                      = SumPrimitiveLength(arrays[t].segments) + 2 * k
                /\ Len(placedAfter) = Len(placed) + 1
                /\ SubSeq(placedAfter, 1, Len(placed)) = placed
                /\ e.numGlyphs = k
                /\ e.glyphStartIndex = Len(glyphOffsetArray)
                /\ e.placementZoom = zoom
                /\ e.hidden = 0
        /\ (ops' = ops + 1 /\ lastOp'.op = "addCollisionDebugVertices") =>
            LET t == lastOp'.target
                n == Len(arrays[t].indexArray)
            IN  /\ Len(arrays'[t].layoutVertexArray)
                      = Len(arrays[t].layoutVertexArray) + 4
                /\ IF t = "collisionBox"
                   THEN /\ Len(arrays'[t].indexArray) = n + 4
                        /\ \A i \in n + 1 .. n + 4 : Len(arrays'[t].indexArray[i].v) = 2
                   ELSE /\ Len(arrays'[t].indexArray) = n + 2
                        /\ \A i \in n + 1 .. n + 2 : Len(arrays'[t].indexArray[i].v) = 3
      ]_vars

\* the retained feature that came from the input feature of index j, if any
Retained(j) == { i \in 1 .. Len(features) : features[i].index = j }

\* C7: after populate every feature of the bucket's list has a text or an icon,
\* and no input feature that fails the filter, or whose text and icon both evaluate
\* empty, is in the list.
C7_RetainedHaveTextOrIcon ==
    populateIn.called =>
        /\ \A i \in 1 .. Len(features) :
              features[i].text # <<>> \/ features[i].icon # ""
        /\ \A j \in 1 .. Len(populateIn.features) :
              LET f == populateIn.features[j]
              IN  (~f.passes \/ (featureText(layer, f) = <<>> /\ featureIcon(layer, f) = ""))
                      => Retained(j) = {}

C7_Witness ==
    /\ populateIn.called
    /\ Len(features) = 1
    /\ \E j \in 1 .. Len(populateIn.features) :
          LET f == populateIn.features[j]
          IN  /\ f.passes
              /\ hasText(layer)
              /\ featureText(layer, f) = <<>>
              /\ featureIcon(layer, f) = ""

\* the code units of the retained texts, with the vertical substitutes of the
\* texts that support vertical writing when withSubstitutes holds
GlyphsOfRetained(withSubstitutes) ==
    UNION { { features[i].text[c] : c \in 1 .. Len(features[i].text) }
              \cup { verticalizePunctuation(features[i].text[c]) :
                        c \in { d \in 1 .. Len(features[i].text) :
                                  /\ withSubstitutes
                                  /\ \E u \in 1 .. Len(features[i].text) :
                                        features[i].text[u] = 19968
                                  /\ features[i].text[d] = 33 } }
            : i \in 1 .. Len(features) }

\* C8, as claimed: after a populate that started from empty dependency sets, the
\* glyph set of the layer's font stack is exactly the code units of the retained
\* texts plus, when the placement mode is line-following, the vertical substitutes
\* of the texts that support vertical writing.
C8_GlyphsWithLinePlacement ==
    (populateIn.called /\ populateIn.glyphDependencies = NoStacks
        /\ glyphDependencies[layer.textFont].present) =>
        glyphDependencies[layer.textFont].codes
            = GlyphsOfRetained(layer.symbolPlacement = "line")

\* C8, amended: the same, with the substitutes present exactly when the placement
\* mode is line-following and text-rotation-alignment is map.
C8_GlyphsWithMapAlignedLinePlacement ==
    (populateIn.called /\ populateIn.glyphDependencies = NoStacks
        /\ glyphDependencies[layer.textFont].present) =>
        glyphDependencies[layer.textFont].codes
            = GlyphsOfRetained(layer.symbolPlacement = "line"
                                /\ layer.rotationAlignment = "map")

C8_Witness ==
    /\ populateIn.called
    /\ populateIn.glyphDependencies = NoStacks
    /\ layer.symbolPlacement = "line"
    /\ layer.rotationAlignment = "map"
    /\ Len(features) = 1
    /\ Len(populateIn.features) = 2
    /\ glyphDependencies[layer.textFont].codes = {19968, 33, 65045}

\* C9: when the layer has neither text (text-field feature-constant and empty, or
\* no text-font) nor icon (icon-image feature-constant and empty), populate leaves
\* the feature list empty and the two dependency sets as they were.
C9_NoTextNoIconIsNoOp ==
    (/\ populateIn.called
     /\ (layer.textFieldConstant /\ layer.textField = <<>>) \/ layer.textFont = "undefined"
     /\ layer.iconImageConstant /\ layer.iconImage = "") =>
        /\ features = <<>>
        /\ glyphDependencies = populateIn.glyphDependencies
        /\ iconDependencies = populateIn.iconDependencies

C9_Witness ==
    /\ populateIn.called
    /\ layer.textFieldConstant /\ layer.textField = <<>> /\ layer.textFont = "F"
    /\ layer.iconImageConstant /\ layer.iconImage = ""
    /\ populateIn.glyphDependencies # NoStacks
    /\ \E j \in 1 .. Len(populateIn.features) :
          /\ populateIn.features[j].passes
          /\ populateIn.features[j].text # <<>>
          /\ populateIn.features[j].icon # ""

\* C10, as claimed: the covering range [lower, upper] of every zoom-dependent
\* size property satisfies lower <= tileZoom + 1 < upper + 1.
C10_RangeCoversNextZoom ==
    (sizeCall.called /\ ~sizeCall.isZoomConstant) =>
        LET range == sizeCall.sizeData.coveringZoomRange
        IN  /\ range[1] <= sizeCall.tileZoom + ZoomUnit
            /\ sizeCall.tileZoom + ZoomUnit < range[2] + ZoomUnit

\* C10, amended: it does whenever the first stop is at most tileZoom + 1 and the
\* last stop is above tileZoom.
C10_RangeCoversNextZoomWithinStops ==
    (/\ sizeCall.called /\ ~sizeCall.isZoomConstant
     /\ sizeCall.levels[1] <= sizeCall.tileZoom + ZoomUnit
     /\ sizeCall.levels[Len(sizeCall.levels)] > sizeCall.tileZoom) =>
        LET range == sizeCall.sizeData.coveringZoomRange
        IN  /\ range[1] <= sizeCall.tileZoom + ZoomUnit
            /\ sizeCall.tileZoom + ZoomUnit < range[2] + ZoomUnit

C10_Witness ==
    /\ sizeCall.called /\ ~sizeCall.isZoomConstant
    /\ Len(sizeCall.levels) >= 3
    /\ \E i \in 2 .. Len(sizeCall.levels) - 1 : sizeCall.levels[i] = sizeCall.tileZoom
    /\ sizeCall.levels[Len(sizeCall.levels)] > sizeCall.tileZoom

(***************************************************************************)
(* Line distance indexer.                                                  *)
(***************************************************************************)
\* what a call of addToLineVertexArray, given anchor and line, has to leave
\* when the array was lva before it
AppendsOnePerVertex(lva, anchor, line) ==
    /\ ~lastOp'.thrown
    /\ Len(lineVertexArray') = Len(lva) + Len(line)
    /\ \A j \in 1 .. Len(line) :
         /\ lineVertexArray'[Len(lva) + j].x = line[j].x
         /\ lineVertexArray'[Len(lva) + j].y = line[j].y
    /\ lineArray'.returned /\ lineArray'.anchor = anchor
    /\ lineArray'.lineStartIndex = Len(lva)
    /\ lineArray'.lineLength = Len(line)

\* C11, as stated: for an anchor with segment index i on a line of n vertices,
\* 0 <= i < n, addToLineVertexArray appends exactly n entries, one per line
\* vertex in line order, and returns lineStartIndex equal to the length before
\* the call and lineLength n; with no segment index it appends nothing and
\* returns lineLength 0; entries appended by earlier calls are never changed.
C11_AppendsRangeAnySegment ==
    [][ (ops' = ops + 1 /\ lastOp'.op = "addToLineVertexArray") =>
            LET anchor == lastOp'.anchor
                line == lastOp'.line
            IN  /\ (anchor.segment >= 0 /\ anchor.segment < Len(line)) =>
                      AppendsOnePerVertex(lineVertexArray, anchor, line)
                /\ anchor.segment = NoSegment =>
                      /\ lineVertexArray' = lineVertexArray
                      /\ lineArray'.returned /\ lineArray'.anchor = anchor
                      /\ lineArray'.lineStartIndex = Len(lineVertexArray)
                      /\ lineArray'.lineLength = 0
                /\ SubSeq(lineVertexArray', 1, Len(lineVertexArray)) = lineVertexArray
      ]_vars

\* C11, amended: the same for a segment index i with 0 <= i < n - 1, the
\* indices for which the line has a vertex i + 1.
C11_AppendsRangeOnSegment ==
    [][ (ops' = ops + 1 /\ lastOp'.op = "addToLineVertexArray") =>
            LET anchor == lastOp'.anchor
                line == lastOp'.line
            IN  /\ (anchor.segment >= 0 /\ anchor.segment < Len(line) - 1) =>
                      AppendsOnePerVertex(lineVertexArray, anchor, line)
                /\ anchor.segment = NoSegment =>
                      /\ lineVertexArray' = lineVertexArray
                      /\ lineArray'.returned /\ lineArray'.anchor = anchor
                      /\ lineArray'.lineStartIndex = Len(lineVertexArray)
                      /\ lineArray'.lineLength = 0
                /\ SubSeq(lineVertexArray', 1, Len(lineVertexArray)) = lineVertexArray
      ]_vars

\* a second line's range was appended after the first, for an anchor on an
\* inner segment
C11_Witness ==
    /\ lastOp.op = "addToLineVertexArray" /\ ~lastOp.thrown
    /\ lastOp.anchor.segment = 1
    /\ lineArray.lineStartIndex > 0
    /\ lineArray.lineLength = Len(lastOp.line)
    /\ Len(lineVertexArray) = lineArray.lineStartIndex + lineArray.lineLength

\* C12: in the range appended for an anchor on segment i, the stored distances
\* are non-decreasing with increasing vertex index over i+1..n-1 and with
\* decreasing vertex index over i..0, each being the anchor's distance to the
\* nearest vertex on that side plus the lengths of the segments walked.
C12_DistancesMonotone ==
    [][ (ops' = ops + 1 /\ lastOp'.op = "addToLineVertexArray"
            /\ lastOp'.anchor.segment # NoSegment /\ ~lastOp'.thrown) =>
            LET anchor == lastOp'.anchor
                line == lastOp'.line
                start == Len(lineVertexArray)
                stored(i) == lineVertexArray'[start + i + 1].tileUnitDistanceFromAnchor
            IN  /\ \A i \in anchor.segment + 1 .. Len(line) - 2 :
                      stored(i) <= stored(i + 1)
                /\ \A i \in 1 .. anchor.segment :
                      stored(i) <= stored(i - 1)
                /\ \A i \in 0 .. Len(line) - 1 :
                      stored(i) = distanceFromAnchor(anchor, line, i)
      ]_vars

(***************************************************************************)
(* Collision records.                                                      *)
(***************************************************************************)
\* the records startIndex .. endIndex - 1 of the last flattening call
FlatRange == flat.startIndex .. flat.endIndex - 1

\* the last flattening call returned every record of its range, width values
\* each, in record order
FlatHasAll(width) ==
    /\ Len(flat.result) = width * (flat.endIndex - flat.startIndex)
    /\ \A k \in FlatRange :
         LET rec == collisionBoxArray[k + 1]
             at == width * (k - flat.startIndex)
         IN  IF width = 6
             THEN /\ flat.result[at + 1] = rec.x1
                  /\ flat.result[at + 2] = rec.y1
                  /\ flat.result[at + 3] = rec.x2
                  /\ flat.result[at + 4] = rec.y2
                  /\ flat.result[at + 5] = rec.anchorPointX
                  /\ flat.result[at + 6] = rec.anchorPointY
             ELSE /\ flat.result[at + 1] = rec.anchorPointX
                  /\ flat.result[at + 2] = rec.anchorPointY
                  /\ flat.result[at + 3] = rec.radius
                  /\ flat.result[at + 4] = rec.distanceToAnchor
                  /\ flat.result[at + 5] = FALSE

\* the result of the last flattening call is all of its range or nothing; a
\* record is a box when its radius is 0 and a circle otherwise, the kinds the
\* two routines name
FlatAllOrNothing ==
    /\ flat.op = "deserializeCollisionBoxes" =>
         IF \E k \in FlatRange : collisionBoxArray[k + 1].radius # 0
         THEN flat.result = <<>>
         ELSE FlatHasAll(6)
    /\ flat.op = "deserializeCollisionCircles" =>
         IF \E k \in FlatRange : collisionBoxArray[k + 1].radius = 0
         THEN flat.result = <<>>
         ELSE FlatHasAll(5)

Families ==
    { <<"dynamicLayoutAttributes", "dynamicLayoutVertexArray">>,
      <<"opacityAttributes", "opacityVertexArray">>,
      <<"collisionAttributes", "collisionVertexArray">> }

\* C14: serializing a built Buffer Set and constructing a Buffer Set of the
\* same render target from the serialized form yields the same layout vertex
\* array, index array and segment list; the dynamic, opacity and
\* collision-debug vertex arrays are present in the serialized form and in the
\* reconstructed set exactly when the target's interface declares the family
\* (text and icon: dynamic and opacity only; collisionBox and collisionCircle:
\* collision-debug only).
C14_SerializeRoundTrip ==
    /\ serialized # Undefined =>
         \A t \in Targets : \A f \in Families :
            /\ serialized[t][f[2]] # Undefined <=> symbolInterfaces[t][f[1]]
            /\ symbolInterfaces[t][f[1]] <=>
                 IF t \in {"text", "icon"}
                 THEN f[1] \in {"dynamicLayoutAttributes", "opacityAttributes"}
                 ELSE f[1] = "collisionAttributes"
    /\ rebuilt # Undefined =>
         \A t \in Targets :
            /\ rebuilt[t].layoutVertexArray = arrays[t].layoutVertexArray
            /\ rebuilt[t].indexArray = arrays[t].indexArray
            /\ rebuilt[t].segments = arrays[t].segments
            /\ \A f \in Families :
                 f[2] \in DOMAIN rebuilt[t] <=> symbolInterfaces[t][f[1]]

\* a bucket with text quads in two segments and a collision box quad was
\* serialized and constructed again
C14_Witness ==
    /\ rebuilt # Undefined
    /\ Len(arrays["text"].segments) = 2
    /\ Len(arrays["collisionBox"].layoutVertexArray) = 4
    /\ Len(rebuilt["text"].layoutVertexArray) > 4

(***************************************************************************)
(* Collision debug buffers.                                                *)
(***************************************************************************)
\* the records of the text range, then of the icon range, of the first j
\* symbol instances, each with its instance's anchor
RECURSIVE RecordsInRanges(_)
RecordsInRanges(j) ==
    IF j = 0 THEN <<>>
    ELSE LET si == symbolInstances[j]
             range(from, to) ==
                 [i \in 1 .. to - from |-> [b |-> from + i - 1, anchor |-> si.anchor]]
         IN  RecordsInRanges(j - 1)
                 \o range(si.textBoxStartIndex, si.textBoxEndIndex)
                 \o range(si.iconBoxStartIndex, si.iconBoxEndIndex)

\* quad q of a debug Buffer Set has the four corners of record rec around the
\* record's anchor point, with the instance's anchor
DebugQuadOf(a, q, rec, anchor) ==
    LET vertex(x, y) ==
            <<rec.anchorPoint.x, rec.anchorPoint.y, anchor.x, anchor.y, x, y>>
    IN  /\ a.layoutVertexArray[4 * q - 3] = vertex(rec.x1, rec.y1)
        /\ a.layoutVertexArray[4 * q - 2] = vertex(rec.x2, rec.y1)
        /\ a.layoutVertexArray[4 * q - 1] = vertex(rec.x2, rec.y2)
        /\ a.layoutVertexArray[4 * q] = vertex(rec.x1, rec.y2)

\* the index of the first vertex of quad q within its segment
IndexInSegment(a, q, seg) == 4 * (q - 1) - a.segments[seg].vertexOffset

\* what generateCollisionDebugBuffers leaves in the two debug Buffer Sets
DebugBuffersHaveRanges ==
    LET visited == RecordsInRanges(Len(symbolInstances))
        isCircle(v) == collisionBoxArray[v.b + 1].radius > 0
        isBox(v) == ~isCircle(v)
        circles == SelectSeq(visited, isCircle)
        boxes == SelectSeq(visited, isBox)
        cc == arrays["collisionCircle"]
        cb == arrays["collisionBox"]
    IN  /\ Len(cc.layoutVertexArray) = 4 * Len(circles)
        /\ Len(cc.indexArray) = 2 * Len(circles)
        /\ \A q \in 1 .. Len(circles) :
             LET index == IndexInSegment(cc, q, cc.indexArray[2 * q].seg)
             IN  /\ DebugQuadOf(cc, q, collisionBoxArray[circles[q].b + 1],
                                circles[q].anchor)
                 /\ cc.indexArray[2 * q - 1].v = <<index, index + 1, index + 2>>
                 /\ cc.indexArray[2 * q].v = <<index, index + 2, index + 3>>
        /\ Len(cb.layoutVertexArray) = 4 * Len(boxes)
        /\ Len(cb.indexArray) = 4 * Len(boxes)
        /\ \A q \in 1 .. Len(boxes) :
             LET index == IndexInSegment(cb, q, cb.indexArray[4 * q].seg)
             IN  /\ DebugQuadOf(cb, q, collisionBoxArray[boxes[q].b + 1],
                                boxes[q].anchor)
                 /\ cb.indexArray[4 * q - 3].v = <<index, index + 1>>
                 /\ cb.indexArray[4 * q - 2].v = <<index + 1, index + 2>>
                 /\ cb.indexArray[4 * q - 1].v = <<index + 2, index + 3>>
                 /\ cb.indexArray[4 * q].v = <<index + 3, index>>

\* C15: generateCollisionDebugBuffers emits, for every symbol instance and
\* every record index b in its text range and its icon range, exactly one
\* quad: into the collisionCircle Buffer Set with two triangles when the
\* record's radius is positive, and into the collisionBox Buffer Set with the
\* line loop (index, index+1), (index+1, index+2), (index+2, index+3),
\* (index+3, index) otherwise; no record outside those ranges produces
\* geometry and the collision box array is not modified.
C15_DebugQuadPerRecord ==
    [][ (lastOp'.op = "generateCollisionDebugBuffers" /\ ops' = ops + 1) =>
            /\ DebugBuffersHaveRanges'
            /\ collisionBoxArray' = collisionBoxArray
      ]_vars

\* two instances were drawn, a circle and a box among their records
C15_Witness ==
    /\ lastOp.op = "generateCollisionDebugBuffers"
    /\ Len(symbolInstances) = 2
    /\ Len(arrays["collisionCircle"].layoutVertexArray) = 4
    /\ Len(arrays["collisionBox"].layoutVertexArray) = 4
    /\ symbolInstances[2].iconBoxEndIndex > symbolInstances[2].iconBoxStartIndex

\* C17: the debug emitter and the flattening routines classify every collision
\* record the same way, for every value of the radius: a record that
\* generateCollisionDebugBuffers draws as a circle is accepted by
\* deserializeCollisionCircles and rejected by deserializeCollisionBoxes on a
\* one-record range, and a record it draws as a box is accepted by
\* deserializeCollisionBoxes and rejected by deserializeCollisionCircles.
C17_SameClassification ==
    (/\ lastOp.op = "generateCollisionDebugBuffers"
     /\ flat.op # "none"
     /\ flat.endIndex = flat.startIndex + 1) =>
        \A c \in 1 .. Len(lastOp.calls) :
            lastOp.calls[c].b = flat.startIndex =>
                LET accepted == Len(flat.result) > 0
                    drawnAs == IF lastOp.calls[c].target = "collisionCircle"
                               THEN "deserializeCollisionCircles"
                               ELSE "deserializeCollisionBoxes"
                IN  accepted <=> flat.op = drawnAs

(***************************************************************************)
(* Buffer Set lifecycle: live buffers.                                     *)
(***************************************************************************)
\* the buffer objects of a set that were created and not destroyed
LiveBuffers(s) == { g \in 1 .. Len(s.gpu) : s.gpu[g].destroyCalls = 0 }

\* the buffer objects the fields of a set reference
ReferencedBuffers(s) ==
    { s.fields[f] : f \in DOMAIN s.fields } \ {0}

\* C16: after any sequence of upload and destroy calls on a Buffer Set, no GPU
\* buffer is orphaned: every buffer object that an upload created and that has
\* not been destroyed is still referenced by the set, and each array has at
\* most one live GPU buffer.
C16_NoOrphanedBuffer ==
    \A t \in Targets :
        /\ LiveBuffers(buffers[t]) \subseteq ReferencedBuffers(buffers[t])
        /\ \A g, h \in LiveBuffers(buffers[t]) :
             buffers[t].gpu[g].kind = buffers[t].gpu[h].kind => g = h

====
